---- MODULE Spec2Model ----
(***************************************************************************)
(* A model of analyze_covid_data (src/project.py): the load / clean /      *)
(* present pipeline over an in-memory table, its three exception handlers  *)
(* and its finally clause.                                                 *)
(*                                                                         *)
(* A table (DataFrame) is a record [columns, rows]; a row carries the      *)
(* index label it got when the file was read and one cell per column.      *)
(* Every cell is a tagged record:                                          *)
(*    [k |-> "nan"]                 a missing value (NaN / None)           *)
(*    [k |-> "str",  s |-> ...]     a string as read from the file         *)
(*    [k |-> "date", day |-> ...]   a timestamp (day number within 2021)   *)
(*    [k |-> "fin",  n |-> , d |->] the finite number n/d, in lowest terms *)
(*    [k |-> "inf",  sign |-> ...]  plus or minus infinity                 *)
(* Numbers are exact rationals: rounding of the floating-point operations  *)
(* is not modelled.                                                        *)
(*                                                                         *)
(* groupby(...).apply(...) is modelled as pandas 1.x computes it for a     *)
(* function that returns a like-indexed Series: the pieces are put back    *)
(* under the index labels of the frame.                                    *)
(***************************************************************************)
EXTENDS Integers, Sequences, FiniteSets, TLC

VARIABLES pc, file, csv, selected_countries, df, df_filtered,
          latest_vaccination_data, err, out

vars == <<pc, file, csv, selected_countries, df, df_filtered,
          latest_vaccination_data, err, out>>

(* ------------------------------ cells --------------------------------- *)

NaN == [k |-> "nan"]

Str(s) == [k |-> "str", s |-> s]

Timestamp(day) == [k |-> "date", day |-> day]

Inf(sign) == [k |-> "inf", sign |-> sign]

Abs(x) == IF x < 0 THEN -x ELSE x

RECURSIVE GCD(_, _)
GCD(a, b) == IF b = 0 THEN a ELSE GCD(b, a % b)

\* The finite number n/d (d # 0), in lowest terms with a positive denominator.
Fin(n, d) ==
    LET g == GCD(Abs(n), Abs(d))
        s == IF d < 0 THEN -1 ELSE 1
    IN  [k |-> "fin", n |-> (s * n) \div g, d |-> (s * d) \div g]

Num(n) == Fin(n, 1)

isnull(c) == c.k = "nan"

Sign(c) == IF c.k = "inf" THEN c.sign
           ELSE IF c.n > 0 THEN 1 ELSE IF c.n < 0 THEN -1 ELSE 0

\* Float arithmetic of the numeric columns (IEEE rules for NaN and infinity).
FAdd(a, b) ==
    IF a.k = "nan" \/ b.k = "nan" THEN NaN
    ELSE IF a.k = "inf" /\ b.k = "inf"
         THEN IF a.sign = b.sign THEN a ELSE NaN
    ELSE IF a.k = "inf" THEN a
    ELSE IF b.k = "inf" THEN b
    ELSE Fin(a.n * b.d + b.n * a.d, a.d * b.d)

FMul(a, b) ==
    IF a.k = "nan" \/ b.k = "nan" THEN NaN
    ELSE IF a.k = "inf" \/ b.k = "inf"
         THEN IF Sign(a) * Sign(b) = 0 THEN NaN ELSE Inf(Sign(a) * Sign(b))
    ELSE Fin(a.n * b.n, a.d * b.d)

FNeg(a) ==
    IF a.k = "nan" THEN NaN
    ELSE IF a.k = "inf" THEN Inf(-a.sign)
    ELSE Fin(-a.n, a.d)

FSub(a, b) == FAdd(a, FNeg(b))

\* Division that gives NaN for every zero denominator.
FDiv_NaNOnZero(a, b) ==
    IF a.k # "fin" \/ b.k # "fin" \/ b.n = 0 THEN NaN
    ELSE Fin(a.n * b.d, a.d * b.n)

\* Series / Series: true division of floats never raises; x/0 is +-inf for
\* x # 0 and NaN for x = 0.
FDiv(a, b) ==
    IF a.k = "nan" \/ b.k = "nan" THEN NaN
    ELSE IF b.k = "inf"
         THEN IF a.k = "inf" THEN NaN ELSE Num(0)
    ELSE IF a.k = "inf"
         THEN Inf(IF b.n < 0 THEN -a.sign ELSE a.sign)
    ELSE IF b.n = 0
         THEN IF a.n = 0 THEN NaN ELSE Inf(Sign(a))
    ELSE Fin(a.n * b.d, a.d * b.n)

FLeq(a, b) == a.n * b.d <= b.n * a.d

(* ------------------------------ frames -------------------------------- *)

numeric_cols == <<"total_cases", "new_cases", "total_deaths", "new_deaths",
                  "total_vaccinations", "people_vaccinated">>

Range(s) == {s[i] : i \in DOMAIN s}

\* Series.isin(values) on one cell.
isin(c, values) == c.k = "str" /\ c.s \in Range(values)

Column(frame, col) == [i \in DOMAIN frame.rows |-> frame.rows[i].cells[col]]

\* frame[col] = series, the series given in row order.
SetColumn(frame, col, series) ==
    [columns |-> frame.columns \cup {col},
     rows |-> [i \in DOMAIN frame.rows |->
                [index |-> frame.rows[i].index,
                 cells |-> [c \in frame.columns \cup {col} |->
                              IF c = col THEN series[i]
                              ELSE frame.rows[i].cells[c]]]]]

\* Filter as a loop over the list of countries: the rows come out country
\* by country, in the order of the list.
RECURSIVE RowsInListOrder(_, _, _)
RowsInListOrder(frame, countries, n) ==
    IF n > Len(countries) THEN <<>>
    ELSE SelectSeq(frame.rows,
                   LAMBDA r : r.cells["location"] = Str(countries[n]))
         \o RowsInListOrder(frame, countries, n + 1)

Filter_InListOrder(frame, countries) ==
    [columns |-> frame.columns, rows |-> RowsInListOrder(frame, countries, 1)]

\* df[df['location'].isin(selected_countries)]
Filter(frame, countries) ==
    [columns |-> frame.columns,
     rows |-> SelectSeq(frame.rows,
                        LAMBDA r : isin(r.cells["location"], countries))]

\* dropna(subset=['date'])
DropNaDate(frame) ==
    [columns |-> frame.columns,
     rows |-> SelectSeq(frame.rows, LAMBDA r : ~isnull(r.cells["date"]))]

\* What pd.to_datetime makes of the date strings that occur in the inputs;
\* 0 stands for a string it cannot parse (it raises ValueError).
ParseDay(s) ==
    CASE s = "2021-01-01" -> 1
      [] s = "2021-01-02" -> 2
      [] s = "2021/01/02" -> 2
      [] s = "2021-01-03" -> 3
      [] s = "2021-01-04" -> 4
      [] s = "2021-01-05" -> 5
      [] OTHER -> 0

\* pd.to_datetime(series) raises on a string that is no date.
to_datetime_raises(series) ==
    \E i \in DOMAIN series : series[i].k = "str" /\ ParseDay(series[i].s) = 0

to_datetime(c) ==
    IF c.k = "str" THEN Timestamp(ParseDay(c.s)) ELSE c

\* df_filtered['date'] = pd.to_datetime(df_filtered['date'])
ConvertDates(frame) ==
    SetColumn(frame, "date",
              [i \in DOMAIN frame.rows |->
                  to_datetime(frame.rows[i].cells["date"])])

\* The last position before k, and the first after k, that holds a value
\* (0 when there is none).
PrevValid(x, k) ==
    LET S == {i \in 1..(k - 1) : ~isnull(x[i])}
    IN  IF S = {} THEN 0 ELSE CHOOSE i \in S : \A j \in S : j <= i

NextValid(x, k) ==
    LET S == {i \in (k + 1)..Len(x) : ~isnull(x[i])}
    IN  IF S = {} THEN 0 ELSE CHOOSE i \in S : \A j \in S : i <= j

\* interpolate(limit_area='inside'): a gap after the last value is left too.
interpolate_InsideOnly(x) ==
    [k \in DOMAIN x |->
        IF ~isnull(x[k]) THEN x[k]
        ELSE LET i == PrevValid(x, k)
                 j == NextValid(x, k)
             IN  IF i = 0 \/ j = 0 THEN NaN
                 ELSE FAdd(x[i], FMul(FSub(x[j], x[i]), Fin(k - i, j - i)))]

\* Series.interpolate() with its defaults (method='linear',
\* limit_direction='forward'): the values are taken as equally spaced in row
\* order; a gap between two values is filled on the straight line between
\* them, a gap after the last value is filled with that value, a gap before
\* the first value is left.
interpolate(x) ==
    [k \in DOMAIN x |->
        IF ~isnull(x[k]) THEN x[k]
        ELSE LET i == PrevValid(x, k)
                 j == NextValid(x, k)
             IN  IF i = 0 THEN NaN
                 ELSE IF j = 0 THEN x[i]
                 ELSE FAdd(x[i], FMul(FSub(x[j], x[i]), Fin(k - i, j - i)))]

\* The positions of the rows of one location, in row order.
RECURSIVE GroupPositions(_, _, _)
GroupPositions(frame, key, i) ==
    IF i > Len(frame.rows) THEN <<>>
    ELSE IF frame.rows[i].cells["location"] = key
         THEN <<i>> \o GroupPositions(frame, key, i + 1)
         ELSE GroupPositions(frame, key, i + 1)

PositionIn(s, v) == CHOOSE n \in DOMAIN s : s[n] = v

\* frame[col].interpolate(), without the groupby.
GroupInterpolate_Ungrouped(frame, col) ==
    interpolate([i \in DOMAIN frame.rows |-> frame.rows[i].cells[col]])

\* frame.groupby('location')[col].apply(lambda x: x.interpolate()), put back
\* in the order of the frame. A row without a location is in no group.
GroupInterpolate(frame, col) ==
    [i \in DOMAIN frame.rows |->
        LET key == frame.rows[i].cells["location"]
            pos == GroupPositions(frame, key, 1)
            x   == [n \in DOMAIN pos |-> frame.rows[pos[n]].cells[col]]
        IN  IF isnull(key) THEN NaN
            ELSE interpolate(x)[PositionIn(pos, i)]]

\* How many columns the loop over numeric_cols gets through: it stops at
\* the first column the frame does not have (KeyError).
ColumnsDone(frame) ==
    LET S == {n \in DOMAIN numeric_cols : numeric_cols[n] \notin frame.columns}
    IN  IF S = {} THEN Len(numeric_cols)
        ELSE (CHOOSE n \in S : \A m \in S : n <= m) - 1

\* for col in numeric_cols: df_filtered[col] = df_filtered.groupby(...)...
\* Each pass reads the location column and its own column only, so the
\* passes do not see each other's results.
InterpolateAll(frame) ==
    LET done == {numeric_cols[n] : n \in 1..ColumnsDone(frame)}
    IN  [columns |-> frame.columns,
         rows |-> [i \in DOMAIN frame.rows |->
                    [index |-> frame.rows[i].index,
                     cells |-> [c \in frame.columns |->
                                  IF c \in done
                                  THEN GroupInterpolate(frame, c)[i]
                                  ELSE frame.rows[i].cells[c]]]]]

\* fillna whose result is thrown away (it does not work in place).
fillna_Discarded(frame) == frame

\* df_filtered.fillna(0): every missing cell of every column becomes 0.
fillna(frame) ==
    [columns |-> frame.columns,
     rows |-> [i \in DOMAIN frame.rows |->
                [index |-> frame.rows[i].index,
                 cells |-> [c \in frame.columns |->
                              IF isnull(frame.rows[i].cells[c]) THEN Num(0)
                              ELSE frame.rows[i].cells[c]]]]]

\* df['death_rate'] = df['total_deaths'] / df['total_cases']
DeathRate(frame) ==
    SetColumn(frame, "death_rate",
              [i \in DOMAIN frame.rows |->
                  FDiv(frame.rows[i].cells["total_deaths"],
                       frame.rows[i].cells["total_cases"])])

\* The percentage written over people_vaccinated.
VaccinationRate_InPlace(frame) ==
    SetColumn(frame, "people_vaccinated",
              [i \in DOMAIN frame.rows |->
                  FMul(FDiv(frame.rows[i].cells["people_vaccinated"],
                            frame.rows[i].cells["population"]),
                       Num(100))])

\* df['vaccination_rate'] = (df['people_vaccinated'] / df['population']) * 100
VaccinationRate(frame) ==
    SetColumn(frame, "vaccination_rate",
              [i \in DOMAIN frame.rows |->
                  FMul(FDiv(frame.rows[i].cells["people_vaccinated"],
                            frame.rows[i].cells["population"]),
                       Num(100))])

\* The order in which groupby sorts the location names that occur.
SortedLocations == <<"Brazil", "India", "Kenya", "United States">>

GroupKeys(frame) ==
    SelectSeq(SortedLocations,
              LAMBDA s : \E i \in DOMAIN frame.rows :
                             frame.rows[i].cells["location"] = Str(s))

\* GroupBy.last() of one column: the last value of the group that is not
\* missing, in row order; NaN when the group has none.
LastValid(frame, pos, col) ==
    LET S == {n \in DOMAIN pos : ~isnull(frame.rows[pos[n]].cells[col])}
    IN  IF S = {} THEN NaN
        ELSE frame.rows[pos[CHOOSE n \in S : \A m \in S : m <= n]].cells[col]

\* df_filtered.groupby('location').last().reset_index()
Latest(frame) ==
    LET keys == GroupKeys(frame)
    IN  [columns |-> frame.columns,
         rows |-> [g \in DOMAIN keys |->
                    [index |-> g - 1,
                     cells |-> [c \in frame.columns |->
                                  IF c = "location" THEN Str(keys[g])
                                  ELSE LastValid(frame,
                                         GroupPositions(frame, Str(keys[g]), 1),
                                         c)]]]]

\* The population figures written into the latest-per-country table.
population_snapshot == <<100000000, 330000000, 1400000000>>

\* latest['population'] = [...]; latest['vaccination_rate'] = ... * 100
OverridePopulation(frame) ==
    VaccinationRate(
        SetColumn(frame, "population",
                  [i \in DOMAIN frame.rows |-> Num(population_snapshot[i])]))

\* The columns the function reads.
required_columns ==
    {"location", "date", "population"} \cup Range(numeric_cols)

\* Lines 36-50 as one function of the table read.
CleanSteps(frame, countries) ==
    fillna(InterpolateAll(ConvertDates(DropNaDate(Filter(frame, countries)))))

\* Lines 36-50 with the two derived columns of lines 92 and 117.
Clean(frame, countries) ==
    VaccinationRate(DeathRate(CleanSteps(frame, countries)))

\* Whether these lines raise: a column is not there, or a date is no date.
CleanRaises(frame, countries) ==
    \/ ~(required_columns \subseteq frame.columns)
    \/ to_datetime_raises(Column(DropNaDate(Filter(frame, countries)), "date"))

(* ------------------------------ inputs -------------------------------- *)

\* The longest file that is read.
MaxRows == 3

\* countries_to_analyze of the script, and two other lists.
countries_to_analyze == <<"Kenya", "United States", "India">>

SelectedLists ==
    {countries_to_analyze, <<"India", "Kenya">>}

Dates == <<"2021-01-01", "2021-01-02", "2021-01-03", "2021-01-04",
           "2021-01-05">>

\* The population column of a country's rows: a figure, none, or 0.
PopulationOf(loc) ==
    CASE loc = "Kenya" -> Num(50)
      [] loc = "India" -> NaN
      [] loc = "United States" -> Num(0)
      [] OTHER -> Num(200)

\* Row i of a file: the cumulative counters take a, the daily ones b.
FileRow(i, loc, date, a, b) ==
    [index |-> i - 1,
     cells |-> [c \in required_columns |->
                  CASE c = "location" -> Str(loc)
                    [] c = "date" -> date
                    [] c = "population" -> PopulationOf(loc)
                    [] c \in {"total_cases", "new_deaths",
                              "total_vaccinations"} -> a
                    [] OTHER -> b]]

CellsA == {NaN, Num(10), Num(30)}
CellsB == {NaN, Num(3)}

\* A file in date order whose values vary: row i is of country ch[i][1]
\* and holds the values ch[i][2] and ch[i][3].
ValueChoices ==
    ({"Kenya"} \X CellsA \X CellsB) \cup ({"India"} \X CellsA \X {NaN})

ValueFile(ch) ==
    [columns |-> required_columns,
     rows |-> [i \in DOMAIN ch |->
                 FileRow(i, ch[i][1], Str(Dates[i]), ch[i][2], ch[i][3])]]

\* A file of one country whose rows are in any date order.
OrderChoices == {"2021-01-01", "2021/01/02", "2021-01-03"} \X CellsA

OrderFile(ch) ==
    [columns |-> required_columns,
     rows |-> [i \in DOMAIN ch |->
                 FileRow(i, "Kenya", Str(ch[i][1]), ch[i][2], Num(3))]]

\* A file whose locations and dates vary: a country that is not selected,
\* rows without a date, rows whose date is no date.
FilterChoices ==
    ({"Brazil", "India", "Kenya", "United States"} \X {"none", "ok"})
      \cup {<<"Kenya", "bad">>}

FilterFile(ch) ==
    [columns |-> required_columns,
     rows |-> [i \in DOMAIN ch |->
                 FileRow(i, ch[i][1],
                         CASE ch[i][2] = "none" -> NaN
                           [] ch[i][2] = "bad" -> Str("not-a-date")
                           [] OTHER -> Str(Dates[i]),
                         Num(10), Num(3))]]

\* One file with a column left out.
ColumnFiles ==
    { [columns |-> required_columns \ {m},
       rows |-> [i \in 1..3 |->
                   [index |-> i - 1,
                    cells |-> [c \in required_columns \ {m} |->
                                 FileRow(i, countries_to_analyze[i],
                                         Str(Dates[i]), Num(10),
                                         Num(3)).cells[c]]]]]
      : m \in required_columns }

EmptyFrame == [columns |-> {}, rows |-> <<>>]

Start ==
    /\ pc = "load"
    /\ df = EmptyFrame
    /\ df_filtered = EmptyFrame
    /\ latest_vaccination_data = EmptyFrame
    /\ err = "none"
    /\ out = <<>>

Init ==
    /\ Start
    /\ \/ /\ file \in {"missing", "malformed"}
          /\ csv = EmptyFrame
          /\ selected_countries = countries_to_analyze
       \/ /\ file = "ok"
          /\ csv \in ColumnFiles
          /\ selected_countries = countries_to_analyze
       \/ /\ file = "ok"
          /\ \E n \in 0..MaxRows : \E ch \in [1..n -> ValueChoices] :
                csv = ValueFile(ch)
          /\ selected_countries = countries_to_analyze
       \/ /\ file = "ok"
          /\ \E n \in 1..MaxRows : \E ch \in [1..n -> OrderChoices] :
                csv = OrderFile(ch)
          /\ selected_countries = countries_to_analyze
       \/ /\ file = "ok"
          /\ \E n \in 0..MaxRows : \E ch \in [1..n -> FilterChoices] :
                csv = FilterFile(ch)
          /\ selected_countries \in SelectedLists

(* ------------------------------ the run ------------------------------- *)

Raise(e) ==
    /\ err' = e
    /\ pc' = "except"

\* Lines 22-32: read the file, report what was read.
Load ==
    /\ pc = "load"
    /\ IF file = "missing"
       THEN Raise("FileNotFoundError") /\ UNCHANGED <<df, out>>
       ELSE IF file = "malformed"
       THEN Raise("Exception") /\ UNCHANGED <<df, out>>
       ELSE /\ df' = csv
            /\ out' = out \o <<"loaded", "exploration">>
            /\ pc' = "filter"
            /\ UNCHANGED err
    /\ UNCHANGED <<file, csv, selected_countries, df_filtered,
                   latest_vaccination_data>>

\* Line 36.
FilterStep ==
    /\ pc = "filter"
    /\ IF "location" \notin df.columns
       THEN Raise("KeyError") /\ UNCHANGED df_filtered
       ELSE /\ df_filtered' = Filter(df, selected_countries)
            /\ pc' = "dropna"
            /\ UNCHANGED err
    /\ UNCHANGED <<file, csv, selected_countries, df,
                   latest_vaccination_data, out>>

\* Line 39.
DropNaStep ==
    /\ pc = "dropna"
    /\ IF "date" \notin df_filtered.columns
       THEN Raise("KeyError") /\ UNCHANGED df_filtered
       ELSE /\ df_filtered' = DropNaDate(df_filtered)
            /\ pc' = "to_datetime"
            /\ UNCHANGED err
    /\ UNCHANGED <<file, csv, selected_countries, df,
                   latest_vaccination_data, out>>

\* Line 42.
ToDatetimeStep ==
    /\ pc = "to_datetime"
    /\ IF to_datetime_raises(Column(df_filtered, "date"))
       THEN Raise("Exception") /\ UNCHANGED df_filtered
       ELSE /\ df_filtered' = ConvertDates(df_filtered)
            /\ pc' = "interpolate"
            /\ UNCHANGED err
    /\ UNCHANGED <<file, csv, selected_countries, df,
                   latest_vaccination_data, out>>

\* Lines 45-47.
InterpolateStep ==
    /\ pc = "interpolate"
    /\ df_filtered' = InterpolateAll(df_filtered)
    /\ IF ColumnsDone(df_filtered) = Len(numeric_cols)
       THEN pc' = "fillna" /\ UNCHANGED err
       ELSE Raise("KeyError")
    /\ UNCHANGED <<file, csv, selected_countries, df,
                   latest_vaccination_data, out>>

\* Lines 50-53.
FillNaStep ==
    /\ pc = "fillna"
    /\ df_filtered' = fillna(df_filtered)
    /\ out' = out \o <<"cleaning complete">>
    /\ pc' = "plot_totals"
    /\ UNCHANGED <<file, csv, selected_countries, df,
                   latest_vaccination_data, err>>

\* Lines 57-89: the charts of total cases, total deaths and new cases.
PlotTotals ==
    /\ pc = "plot_totals"
    /\ out' = out \o <<"chart total_cases", "chart total_deaths",
                       "chart new_cases">>
    /\ pc' = "death_rate"
    /\ UNCHANGED <<file, csv, selected_countries, df, df_filtered,
                   latest_vaccination_data, err>>

\* Lines 92-102.
DeathRateStep ==
    /\ pc = "death_rate"
    /\ df_filtered' = DeathRate(df_filtered)
    /\ out' = out \o <<"chart death_rate">>
    /\ pc' = "plot_vaccinations"
    /\ UNCHANGED <<file, csv, selected_countries, df,
                   latest_vaccination_data, err>>

\* Lines 104-114.
PlotVaccinations ==
    /\ pc = "plot_vaccinations"
    /\ out' = out \o <<"chart total_vaccinations">>
    /\ pc' = "vaccination_rate"
    /\ UNCHANGED <<file, csv, selected_countries, df, df_filtered,
                   latest_vaccination_data, err>>

\* Lines 117-127.
VaccinationRateStep ==
    /\ pc = "vaccination_rate"
    /\ IF "population" \notin df_filtered.columns
       THEN Raise("KeyError") /\ UNCHANGED <<df_filtered, out>>
       ELSE /\ df_filtered' = VaccinationRate(df_filtered)
            /\ out' = out \o <<"chart vaccination_rate">>
            /\ pc' = "latest"
            /\ UNCHANGED err
    /\ UNCHANGED <<file, csv, selected_countries, df,
                   latest_vaccination_data>>

\* Line 130.
LatestStep ==
    /\ pc = "latest"
    /\ latest_vaccination_data' = Latest(df_filtered)
    /\ pc' = "override_population"
    /\ UNCHANGED <<file, csv, selected_countries, df, df_filtered, err, out>>

\* Lines 133-134: a list of three values fits a table of three rows only
\* (ValueError otherwise).
OverridePopulationStep ==
    /\ pc = "override_population"
    /\ IF Len(latest_vaccination_data.rows) # Len(population_snapshot)
       THEN Raise("Exception") /\ UNCHANGED latest_vaccination_data
       ELSE /\ latest_vaccination_data' =
                  OverridePopulation(latest_vaccination_data)
            /\ pc' = "bar_chart"
            /\ UNCHANGED err
    /\ UNCHANGED <<file, csv, selected_countries, df, df_filtered, out>>

\* Lines 137-151.
BarChartInsights ==
    /\ pc = "bar_chart"
    /\ out' = out \o <<"chart latest vaccination_rate", "insights">>
    /\ pc' = "finally"
    /\ UNCHANGED <<file, csv, selected_countries, df, df_filtered,
                   latest_vaccination_data, err>>

\* Lines 153-154.
ExceptFileNotFound ==
    /\ pc = "except"
    /\ err = "FileNotFoundError"
    /\ out' = out \o <<"error: file not found">>
    /\ pc' = "finally"
    /\ UNCHANGED <<file, csv, selected_countries, df, df_filtered,
                   latest_vaccination_data, err>>

\* Lines 155-156.
ExceptKeyError ==
    /\ pc = "except"
    /\ err = "KeyError"
    /\ out' = out \o <<"error: missing column">>
    /\ pc' = "finally"
    /\ UNCHANGED <<file, csv, selected_countries, df, df_filtered,
                   latest_vaccination_data, err>>

\* Lines 157-159.
ExceptException ==
    /\ pc = "except"
    /\ err = "Exception"
    /\ out' = out \o <<"error: unexpected", "check the data">>
    /\ pc' = "finally"
    /\ UNCHANGED <<file, csv, selected_countries, df, df_filtered,
                   latest_vaccination_data, err>>

\* The notice as the last statement of the try body: no notice after a
\* failure.
Finally_OnSuccessOnly ==
    /\ pc = "finally"
    /\ out' = IF err = "none" THEN out \o <<"Analysis complete.">> ELSE out
    /\ pc' = "done"
    /\ UNCHANGED <<file, csv, selected_countries, df, df_filtered,
                   latest_vaccination_data, err>>

\* Lines 160-161.
Finally ==
    /\ pc = "finally"
    /\ out' = out \o <<"Analysis complete.">>
    /\ pc' = "done"
    /\ UNCHANGED <<file, csv, selected_countries, df, df_filtered,
                   latest_vaccination_data, err>>

Next ==
    \/ Load
    \/ FilterStep
    \/ DropNaStep
    \/ ToDatetimeStep
    \/ InterpolateStep
    \/ FillNaStep
    \/ PlotTotals
    \/ DeathRateStep
    \/ PlotVaccinations
    \/ VaccinationRateStep
    \/ LatestStep
    \/ OverridePopulationStep
    \/ BarChartInsights
    \/ ExceptFileNotFound
    \/ ExceptKeyError
    \/ ExceptException
    \/ Finally

Spec == Init /\ [][Next]_vars

(* ------------------------------ claims -------------------------------- *)

Notice == "Analysis complete."

NoticeCount == Cardinality({i \in DOMAIN out : out[i] = Notice})

Charts == {i \in DOMAIN out : SubSeq(out[i], 1, 5) = "chart"}

\* The run has left the try body through an exception.
Failed == err # "none"

\* Lines 36-53 have run to their end.
Cleaned == "cleaning complete" \in Range(out)

\* Lines 36-53 have just run: df_filtered is the cleaned table.
JustCleaned == pc = "plot_totals"

\* Lines 36-127 have just run: df_filtered has its two derived columns.
JustDerived == pc = "latest"

\* The row of the file a row of df_filtered was read from.
SrcRow(r) == csv.rows[r.index + 1]

\* C1: every exception raised in the try body is taken by one of the three
\* handlers, the finally clause runs after the handler as after a run without
\* failure, and the run ends having printed the notice 'Analysis complete'
\* once, as its last output.
C1_NoticeOnceAndLast ==
    /\ pc = "done" => NoticeCount = 1 /\ out[Len(out)] = Notice
    /\ pc # "done" => NoticeCount = 0
    /\ pc = "except" =>
           ENABLED (ExceptFileNotFound \/ ExceptKeyError \/ ExceptException)
    /\ pc = "finally" => ENABLED Finally

C1_Witness ==
    /\ pc = "done"
    /\ err = "KeyError"
    /\ out[Len(out)] = Notice

\* C2: a run that ends in a failure has rendered no chart.
C2_NoChartInFailedRun ==
    (pc = "done" /\ Failed) => Charts = {}

\* C3: every row of df_filtered is a row of the file (same location, same
\* date, every value the file has) of a selected country; the rows are in
\* the order of the file, none twice, whatever the order of the list.
C3_FilterIsSubset ==
    \A i \in DOMAIN df_filtered.rows :
        LET r == df_filtered.rows[i]
        IN  /\ r.index + 1 \in DOMAIN csv.rows
            /\ r.cells["location"] = SrcRow(r).cells["location"]
            /\ r.cells["location"].k = "str"
            /\ r.cells["location"].s \in Range(selected_countries)
            /\ "date" \in df_filtered.columns =>
                   r.cells["date"] \in {SrcRow(r).cells["date"],
                                        to_datetime(SrcRow(r).cells["date"])}
            /\ \A c \in Range(numeric_cols) \cap df_filtered.columns :
                   ~isnull(SrcRow(r).cells[c]) =>
                       r.cells[c] = SrcRow(r).cells[c]
            /\ \A j \in DOMAIN df_filtered.rows :
                   i < j => r.index < df_filtered.rows[j].index

\* Rows of two selected countries kept in file order, which is not the order
\* of the list, and a row of another country dropped from between them.
C3_Witness ==
    /\ pc = "dropna"
    /\ selected_countries = countries_to_analyze
    /\ Len(csv.rows) = 3
    /\ Len(df_filtered.rows) = 2
    /\ df_filtered.rows[1].cells["location"] = Str("India")
    /\ df_filtered.rows[2].cells["location"] = Str("Kenya")
    /\ df_filtered.rows[2].index = 2

\* C4: once the cleaning is done, no row has a missing value in any of the
\* six numeric columns.
C4_NoMissingAfterCleaning ==
    Cleaned =>
        \A i \in DOMAIN df_filtered.rows : \A c \in Range(numeric_cols) :
            ~isnull(df_filtered.rows[i].cells[c])

\* A country all of whose total_cases are missing in the file.
C4_Witness ==
    /\ Cleaned
    /\ Len(df_filtered.rows) >= 2
    /\ \A i \in DOMAIN df_filtered.rows :
           /\ df_filtered.rows[i].cells["location"] = Str("Kenya")
           /\ isnull(SrcRow(df_filtered.rows[i]).cells["total_cases"])

\* The rows of df_filtered of the country of row i that come before
\* (after) it and whose value in column c is known in the file.
KnownBefore(i, c) ==
    {j \in DOMAIN df_filtered.rows :
        /\ j < i
        /\ df_filtered.rows[j].cells["location"]
             = df_filtered.rows[i].cells["location"]
        /\ ~isnull(SrcRow(df_filtered.rows[j]).cells[c])}

KnownAfter(i, c) ==
    {j \in DOMAIN df_filtered.rows :
        /\ j > i
        /\ df_filtered.rows[j].cells["location"]
             = df_filtered.rows[i].cells["location"]
        /\ ~isnull(SrcRow(df_filtered.rows[j]).cells[c])}

Max(S) == CHOOSE n \in S : \A m \in S : m <= n

Day(i) == df_filtered.rows[i].cells["date"].day

SameCountry(i) ==
    {j \in DOMAIN df_filtered.rows :
        df_filtered.rows[j].cells["location"]
          = df_filtered.rows[i].cells["location"]}

\* The place of row i among the rows of its country put in date order.
DateRank(i) == Cardinality({j \in SameCountry(i) : Day(j) <= Day(i)})

\* C5: whatever the order of the rows, a value missing between two known
\* values in time is filled on the straight line between its two nearest
\* known neighbours of the same country in date order, so it lies between
\* them (the dates of a country taken as distinct).
C5_InterpolatedInDateOrder ==
    pc = "fillna" =>
        \A i \in DOMAIN df_filtered.rows : \A c \in Range(numeric_cols) :
            \A p, q \in SameCountry(i) :
                LET v == df_filtered.rows[i].cells[c]
                    a == SrcRow(df_filtered.rows[p]).cells[c]
                    b == SrcRow(df_filtered.rows[q]).cells[c]
                IN  ( /\ \A j, k \in SameCountry(i) : j # k => Day(j) # Day(k)
                      /\ isnull(SrcRow(df_filtered.rows[i]).cells[c])
                      /\ ~isnull(a) /\ ~isnull(b)
                      /\ Day(p) < Day(i) /\ Day(i) < Day(q)
                      /\ \A j \in SameCountry(i) :
                             (Day(p) < Day(j) /\ Day(j) < Day(q)) =>
                                 isnull(SrcRow(df_filtered.rows[j]).cells[c]) )
                    => /\ v.k = "fin"
                       /\ (FLeq(a, v) /\ FLeq(v, b)) \/ (FLeq(b, v) /\ FLeq(v, a))
                       /\ v = FAdd(a, FMul(FSub(b, a),
                                           Fin(DateRank(i) - DateRank(p),
                                               DateRank(q) - DateRank(p))))

\* The rows of one country.
RowsOf(frame, loc) ==
    [columns |-> frame.columns,
     rows |-> SelectSeq(frame.rows,
                        LAMBDA r : r.cells["location"] = Str(loc))]

NumericValues(frame) ==
    [i \in DOMAIN frame.rows |->
        [c \in Range(numeric_cols) |-> frame.rows[i].cells[c]]]

\* C6: the cleaned numeric values of a country's rows are those the cleaning
\* gives for the file with the rows of every other country taken out.
C6_NoCrossCountryInterpolation ==
    JustCleaned =>
        \A loc \in Range(selected_countries) :
            NumericValues(RowsOf(df_filtered, loc))
              = NumericValues(CleanSteps(RowsOf(csv, loc), selected_countries))

\* A row of Kenya without total_cases between two rows of India that have it.
C6_Witness ==
    /\ JustCleaned
    /\ Len(df_filtered.rows) = 3
    /\ df_filtered.rows[1].cells["location"] = Str("India")
    /\ df_filtered.rows[2].cells["location"] = Str("Kenya")
    /\ df_filtered.rows[3].cells["location"] = Str("India")
    /\ SrcRow(df_filtered.rows[1]).cells["total_cases"] = Num(10)
    /\ isnull(SrcRow(df_filtered.rows[2]).cells["total_cases"])
    /\ SrcRow(df_filtered.rows[3]).cells["total_cases"] = Num(30)
    /\ df_filtered.rows[2].cells["total_cases"] = Num(0)

\* After the cleaning a run fails only for want of the population column
\* (line 117) or after the chart of the vaccination rate (line 133): no
\* division raises.
NoDivisionRaises ==
    (Cleaned /\ Failed) =>
        /\ "chart total_vaccinations" \in Range(out)
        /\ IF err = "KeyError"
           THEN "population" \notin df_filtered.columns
           ELSE "chart vaccination_rate" \in Range(out)

\* A country without any total_cases in the file has total_cases 0.
NoCasesGivesZero ==
    JustCleaned =>
        \A i \in DOMAIN df_filtered.rows :
            (\A j \in SameCountry(i) :
                 isnull(SrcRow(df_filtered.rows[j]).cells["total_cases"]))
            => df_filtered.rows[i].cells["total_cases"] = Num(0)

C8_CleanIdempotent ==
    JustDerived =>
        /\ ~CleanRaises(df_filtered, selected_countries)
        /\ Clean(df_filtered, selected_countries) = df_filtered

\* A cleaned table with a filled gap, a NaN ratio and a finite one.
C8_Witness ==
    /\ JustDerived
    /\ \E i \in DOMAIN df_filtered.rows :
           /\ isnull(SrcRow(df_filtered.rows[i]).cells["total_cases"])
           /\ df_filtered.rows[i].cells["total_cases"] = Num(10)
    /\ \E i \in DOMAIN df_filtered.rows :
           df_filtered.rows[i].cells["death_rate"] = NaN
    /\ \E i \in DOMAIN df_filtered.rows :
           df_filtered.rows[i].cells["vaccination_rate"] = Num(6)

\* C9: the latest-per-country table holds, for every country of the cleaned
\* table, the values of one row of that country with the greatest date.
C9_LatestIsMaxDateRow ==
    pc = "override_population" =>
        /\ \A i \in DOMAIN df_filtered.rows :
               \E g \in DOMAIN latest_vaccination_data.rows :
                   latest_vaccination_data.rows[g].cells["location"]
                     = df_filtered.rows[i].cells["location"]
        /\ \A g \in DOMAIN latest_vaccination_data.rows :
               \E i \in DOMAIN df_filtered.rows :
                   /\ \A j \in SameCountry(i) : Day(j) <= Day(i)
                   /\ latest_vaccination_data.rows[g].cells
                        = df_filtered.rows[i].cells

\* C10 as claimed: a value missing at the start or at the end of a
\* country's series ends as 0.
C10_EdgeGapsBecomeZero ==
    JustCleaned =>
        \A i \in DOMAIN df_filtered.rows : \A c \in Range(numeric_cols) :
            ( /\ isnull(SrcRow(df_filtered.rows[i]).cells[c])
              /\ (KnownBefore(i, c) = {} \/ KnownAfter(i, c) = {}) )
            => df_filtered.rows[i].cells[c] = Num(0)

\* C10 as amended: a value missing before the first known value of the
\* country (in row order) ends as 0; one missing after the last known value
\* ends as a copy of that value.
C10_LeadingZeroTrailingCopy ==
    JustCleaned =>
        \A i \in DOMAIN df_filtered.rows : \A c \in Range(numeric_cols) :
            isnull(SrcRow(df_filtered.rows[i]).cells[c]) =>
                /\ KnownBefore(i, c) = {} =>
                       df_filtered.rows[i].cells[c] = Num(0)
                /\ (KnownBefore(i, c) # {} /\ KnownAfter(i, c) = {}) =>
                       df_filtered.rows[i].cells[c] =
                           SrcRow(df_filtered.rows[Max(KnownBefore(i, c))]).cells[c]

\* A series of one country with total_cases missing, 10, missing.
C10_Witness ==
    /\ JustCleaned
    /\ Len(df_filtered.rows) = 3
    /\ \A i \in 1..3 : df_filtered.rows[i].cells["location"] = Str("Kenya")
    /\ isnull(SrcRow(df_filtered.rows[1]).cells["total_cases"])
    /\ SrcRow(df_filtered.rows[2]).cells["total_cases"] = Num(10)
    /\ isnull(SrcRow(df_filtered.rows[3]).cells["total_cases"])
    /\ df_filtered.rows[1].cells["total_cases"] = Num(0)
    /\ df_filtered.rows[3].cells["total_cases"] = Num(10)

====
